---- MODULE Spec2Model ----
(***************************************************************************)
(* SIR compartment model (Instance, deriv) and the one-parameter fit of    *)
(* beta (fitting, main) of src/main.py.                                    *)
(*                                                                         *)
(* Numbers.  Compartment sizes are fixed-point integers, Scale units per   *)
(* person.  A rate (beta, gamma) is a fraction [n, d].  Every product and  *)
(* quotient of the source is computed in that arithmetic and rounded down  *)
(* once, where the float of the source is rounded to nearest.              *)
(*                                                                         *)
(* odeint.  scipy's integrator advances the solution with internal steps   *)
(* shorter than the output grid and evaluates deriv at each of them.  It   *)
(* is modelled as an explicit one-step method with SubSteps(b, g) equal    *)
(* steps per day; the step is short enough for rate * step <= 1, as the    *)
(* error control of the integrator guarantees on this system.              *)
(***************************************************************************)
EXTENDS Integers, Sequences, FiniteSets

VARIABLES pc,        \* position in Instance / main
          args,      \* arguments of the Instance call under study
          N,         \* total population computed by Instance
          sol,       \* rows written by odeint so far
          nonfinite, \* a division by N = 0 produced nan/inf rows
          raised,    \* exception that left the function ("none" if none)
          S, I, R,   \* arrays returned by Instance
          data,      \* main: observed series of one state (I in main)
          pop,       \* main: population of the state (N in main)
          params,    \* lmfit parameters of the fit
          trial,     \* parameter values of the last objective evaluation
          call,      \* arguments fitting passed to Instance at that evaluation
          model_out, \* what fitting returned at that evaluation
          chisqr,    \* residual sum of squares of params' values
          nfev,      \* number of objective evaluations
          result,    \* result of model.fit
          truth      \* the beta the data was generated with (-1: not generated)

vars == <<pc, args, N, sol, nonfinite, raised, S, I, R, data, pop, params,
          trial, call, model_out, chisqr, nfev, result, truth>>

simvars == <<args, N, sol, nonfinite, S, I, R>>
fitvars == <<data, pop, params, trial, call, model_out, chisqr, nfev, result, truth>>

----------------------------------------------------------------------------
(* Bounds of the model *)

Scale == 60          \* fixed-point units per person
MaxPop == 3          \* largest initial compartment size, in persons
MaxDays == 4         \* largest num_days of a direct Instance call
RateDen == 2         \* rates of a direct call are multiples of 1/RateDen
MaxRateNum == 4      \* largest rate numerator of a direct call
MinSubSteps == 2     \* least number of integrator steps per day
FitDen == 4          \* the optimizer probes beta in multiples of 1/FitDen
MaxFitPop == 3       \* largest population of a fitted state, in persons
MaxLen == 4          \* longest observed series
MaxEval == 6         \* cap on the objective evaluations of one fit
Limit == 10000       \* largest magnitude the fixed-point numbers represent

----------------------------------------------------------------------------
(* Arithmetic helpers *)

Rate(n, d) == [n |-> n, d |-> d]

Max(a, b) == IF a >= b THEN a ELSE b

Ceil(n, d) == (n + d - 1) \div d

\* number of integrator steps per day: rate * (1/SubSteps) <= 1
SubSteps(b, g) == Max(MinSubSteps, Max(Ceil(b.n, b.d), Ceil(g.n, g.d)))

Row(s, i, r) == [S |-> s, I |-> i, R |-> r]

----------------------------------------------------------------------------
(* Instance and deriv *)

\* deriv with the recovered taken from R instead of I
deriv_recoverFromR(y, t, N_, b, g) ==
    LET K    == SubSteps(b, g)
        dSdt == 0 - ((b.n * y.S * y.I) \div (b.d * N_ * K))
        dIdt == ((b.n * y.S * y.I) \div (b.d * N_ * K)) - ((g.n * y.I) \div (g.d * K))
        dRdt == (g.n * y.R) \div (g.d * K)
    IN  Row(dSdt, dIdt, dRdt)

\* deriv with the sign of the infection term of dSdt lost
deriv_signS(y, t, N_, b, g) ==
    LET K    == SubSteps(b, g)
        dSdt == (b.n * y.S * y.I) \div (b.d * N_ * K)
        dIdt == ((b.n * y.S * y.I) \div (b.d * N_ * K)) - ((g.n * y.I) \div (g.d * K))
        dRdt == (g.n * y.I) \div (g.d * K)
    IN  Row(dSdt, dIdt, dRdt)

\* deriv with g in place of b in dSdt
deriv_gammaInS(y, t, N_, b, g) ==
    LET K    == SubSteps(b, g)
        dSdt == 0 - ((g.n * y.S * y.I) \div (g.d * N_ * K))
        dIdt == ((b.n * y.S * y.I) \div (b.d * N_ * K)) - ((g.n * y.I) \div (g.d * K))
        dRdt == (g.n * y.I) \div (g.d * K)
    IN  Row(dSdt, dIdt, dRdt)

\* deriv with the recovery term of dIdt taken from R instead of I
deriv_lossFromR(y, t, N_, b, g) ==
    LET K    == SubSteps(b, g)
        dSdt == 0 - ((b.n * y.S * y.I) \div (b.d * N_ * K))
        dIdt == ((b.n * y.S * y.I) \div (b.d * N_ * K)) - ((g.n * y.R) \div (g.d * K))
        dRdt == (g.n * y.I) \div (g.d * K)
    IN  Row(dSdt, dIdt, dRdt)

\* the increments of one integrator step (derivative times step length)
deriv(y, t, N_, b, g) ==
    LET K    == SubSteps(b, g)
        dSdt == 0 - ((b.n * y.S * y.I) \div (b.d * N_ * K))
        dIdt == ((b.n * y.S * y.I) \div (b.d * N_ * K)) - ((g.n * y.I) \div (g.d * K))
        dRdt == (g.n * y.I) \div (g.d * K)
    IN  Row(dSdt, dIdt, dRdt)

\* one integrator step
OdeStep(y, t, N_, b, g) ==
    LET d == deriv(y, t, N_, b, g)
    IN  Row(y.S + d.S, y.I + d.I, y.R + d.R)

Abs(a) == IF a >= 0 THEN a ELSE 0 - a

\* the row is a number the model represents; a solution that blows up (it can
\* with a negative compartment) leaves the range and is then not followed
InRange(y) == Abs(y.S) <= Limit /\ Abs(y.I) <= Limit /\ Abs(y.R) <= Limit

RECURSIVE OdeSteps(_, _, _, _, _, _)
OdeSteps(y, t, N_, b, g, k) ==
    IF k = 0 \/ ~InRange(y) THEN y
    ELSE OdeSteps(OdeStep(y, t, N_, b, g), t, N_, b, g, k - 1)

\* from one output day to the next; with N = 0 the quotient is not a number
\* and the row is a placeholder (see nonfinite)
OdeDay(y, t, N_, b, g) ==
    IF N_ = 0 THEN y ELSE OdeSteps(y, t, N_, b, g, SubSteps(b, g))

\* the row odeint wrote is not a finite number of the model
NotFinite(y, N_) == N_ = 0 \/ ~InRange(y)

\* odeint(deriv, y_0, t, args): one row per entry of t, the first is y_0
RECURSIVE odeint(_, _, _, _, _)
odeint(y_0, num_days, N_, b, g) ==
    IF num_days <= 1 THEN <<y_0>>
    ELSE LET prev == odeint(y_0, num_days - 1, N_, b, g)
         IN  Append(prev, OdeDay(prev[Len(prev)], Len(prev) - 1, N_, b, g))

Column(rows, c) == [k \in 1..Len(rows) |-> rows[k][c]]

Instance(beta, gamma, S_0, I_0, R_0, num_days) ==
    LET N_  == S_0 + I_0 + R_0
        y_0 == Row(S_0, I_0, R_0)
        s   == odeint(y_0, num_days, N_, beta, gamma)
    IN  [S |-> Column(s, "S"), I |-> Column(s, "I"), R |-> Column(s, "R")]

----------------------------------------------------------------------------
(* A direct call of Instance, followed row by row *)

SimRates == {Rate(k, RateDen) : k \in 0..MaxRateNum} \cup {Rate(1, 7)}

SimSizes == {Scale * k : k \in (0 - 1)..MaxPop}

NoCall == [beta |-> Rate(0, 1), gamma |-> Rate(0, 1), S_0 |-> 0, I_0 |-> 0,
           R_0 |-> 0, num_days |-> 0]

FitIdle ==
    /\ data = <<>>
    /\ pop = 0
    /\ params = <<>>
    /\ trial = <<>>
    /\ call = NoCall
    /\ model_out = <<>>
    /\ chisqr = 0
    /\ nfev = 0
    /\ result = <<>>
    /\ truth = 0 - 1

SimInit ==
    /\ pc = "call"
    /\ args \in [beta : SimRates, gamma : SimRates, S_0 : SimSizes,
                 I_0 : SimSizes, R_0 : SimSizes, num_days : 1..MaxDays]
    /\ N = 0
    /\ sol = <<>>
    /\ nonfinite = FALSE
    /\ raised = "none"
    /\ S = <<>>
    /\ I = <<>>
    /\ R = <<>>
    /\ FitIdle

\* gamma = 0 or a negative initial value
OutOfDomain(a) == a.gamma.n = 0 \/ a.S_0 < 0 \/ a.I_0 < 0 \/ a.R_0 < 0

\* InstanceEnter with the inputs validated first
InstanceEnter_validating ==
    /\ pc = "call"
    /\ IF OutOfDomain(args) \/ args.S_0 + args.I_0 + args.R_0 = 0
       THEN /\ pc' = "error"
            /\ raised' = "InvalidParameter"
            /\ UNCHANGED <<N, sol>>
       ELSE /\ N' = args.S_0 + args.I_0 + args.R_0
            /\ sol' = <<Row(args.S_0, args.I_0, args.R_0)>>
            /\ pc' = "odeint"
            /\ UNCHANGED raised
    /\ UNCHANGED <<args, nonfinite, S, I, R>>
    /\ UNCHANGED fitvars

\* N, t and y_0 are set and odeint writes the initial values as its first row
InstanceEnter ==
    /\ pc = "call"
    /\ N' = args.S_0 + args.I_0 + args.R_0
    /\ sol' = <<Row(args.S_0, args.I_0, args.R_0)>>
    /\ pc' = "odeint"
    /\ UNCHANGED <<args, nonfinite, raised, S, I, R>>
    /\ UNCHANGED fitvars

\* odeint integrates to the next entry of t
OdeintDay ==
    /\ pc = "odeint"
    /\ Len(sol) < args.num_days
    /\ sol' = Append(sol, OdeDay(sol[Len(sol)], Len(sol) - 1, N, args.beta, args.gamma))
    /\ nonfinite' = (nonfinite \/ NotFinite(sol'[Len(sol')], N))
    /\ UNCHANGED <<pc, args, N, raised, S, I, R>>
    /\ UNCHANGED fitvars

\* S, I, R = sol.T; return S, I, R
InstanceReturn ==
    /\ pc = "odeint"
    /\ Len(sol) = args.num_days
    /\ S' = Column(sol, "S")
    /\ I' = Column(sol, "I")
    /\ R' = Column(sol, "R")
    /\ pc' = "returned"
    /\ UNCHANGED <<args, N, sol, nonfinite, raised>>
    /\ UNCHANGED fitvars

SimNext == InstanceEnter \/ OdeintDay \/ InstanceReturn

SpecSim == SimInit /\ [][SimNext]_vars

----------------------------------------------------------------------------
(* fitting and the fit of main *)

BetaMin == 0         \* min=0 of the parameter hint
BetaMax == 1         \* max=1 of the parameter hint
BetaStart == 0       \* value=-0. of the parameter hint

\* lmfit's default bounds -inf, inf
Inf == Limit * Limit

\* a parameter of the fit; beta is held in units of 1/FitDen
Param(value, min, max, vary) == [value |-> value, min |-> min, max |-> max, vary |-> vary]

\* fitting with nobody subtracted from the susceptible
FittingCall_allSusceptible(x, beta, I_0, N_, num_days) ==
    [beta |-> Rate(beta, FitDen), gamma |-> Rate(1, 7), S_0 |-> N_, I_0 |-> I_0,
     R_0 |-> 0, num_days |-> Len(x)]

\* fitting with an infectious period of 14 days
FittingCall_twoWeeks(x, beta, I_0, N_, num_days) ==
    [beta |-> Rate(beta, FitDen), gamma |-> Rate(1, 14), S_0 |-> N_ - I_0, I_0 |-> I_0,
     R_0 |-> 0, num_days |-> Len(x)]

\* the arguments fitting passes to Instance
FittingCall(x, beta, I_0, N_, num_days) ==
    [beta |-> Rate(beta, FitDen), gamma |-> Rate(1, 7), S_0 |-> N_ - I_0, I_0 |-> I_0,
     R_0 |-> 0, num_days |-> Len(x)]

fitting(x, beta, I_0, N_, num_days) ==
    LET c == FittingCall(x, beta, I_0, N_, num_days)
    IN  Instance(c.beta, c.gamma, c.S_0, c.I_0, c.R_0, c.num_days).I

\* np.arange(len(I))
arange(n) == [k \in 1..n |-> k - 1]

RECURSIVE SumSq(_, _, _)
SumSq(a, b, k) ==
    IF k = 0 THEN 0 ELSE (a[k] - b[k]) * (a[k] - b[k]) + SumSq(a, b, k - 1)

\* the objective: sum of the squared residuals data - model
Chisqr(d, v) == SumSq(d, fitting(arange(Len(d)), v.beta, v.I_0, v.N, v.num_days), Len(d))

Values(ps) == [k \in DOMAIN ps |-> ps[k].value]

\* the values a search step may try for one parameter: a fixed parameter keeps
\* its value, a varying one moves by up to the width of the beta interval and
\* stays within its bounds
Probe(q) ==
    IF q.vary
    THEN {v \in (q.value - FitDen)..(q.value + FitDen) : q.min <= v /\ v <= q.max}
    ELSE {q.value}

Candidates(ps) ==
    {[beta |-> b, I_0 |-> i, N |-> n, num_days |-> d] :
        b \in Probe(ps.beta), i \in Probe(ps.I_0), n \in Probe(ps.N), d \in Probe(ps.num_days)}

\* observed series: the infected trajectory of the simulator for a known beta
\* (truth), or the first value repeated (truth = -1), or the empty series
Series ==
    {[pop |-> Scale * n, truth |-> b,
      data |-> Instance(Rate(b, FitDen), Rate(1, 7), Scale * (n - i), Scale * i, 0, len).I] :
        <<n, i, b, len>> \in {q \in (1..MaxFitPop) \X (0..MaxFitPop) \X (0..FitDen) \X (1..MaxLen) :
                               q[2] <= q[1]}}
    \cup
    {[pop |-> Scale * n, truth |-> 0 - 1, data |-> [k \in 1..len |-> Scale * i]] :
        <<n, i, len>> \in {q \in (1..MaxFitPop) \X (0..MaxFitPop) \X (0..MaxLen) : q[2] <= q[1]}}

FitInit ==
    /\ pc = "main"
    /\ \E s \in Series : data = s.data /\ pop = s.pop /\ truth = s.truth
    /\ params = <<>>
    /\ trial = <<>>
    /\ call = NoCall
    /\ model_out = <<>>
    /\ chisqr = 0
    /\ nfev = 0
    /\ result = <<>>
    /\ args = NoCall
    /\ N = 0
    /\ sol = <<>>
    /\ nonfinite = FALSE
    /\ raised = "none"
    /\ S = <<>>
    /\ I = <<>>
    /\ R = <<>>

\* MakeParams with the line params["N"].vary = False missing
MakeParams_NVaries ==
    /\ pc = "main"
    /\ IF Len(data) = 0
       THEN /\ pc' = "error"
            /\ raised' = "IndexError"
            /\ UNCHANGED params
       ELSE /\ params' = [beta     |-> Param(BetaStart * FitDen, BetaMin * FitDen, BetaMax * FitDen, TRUE),
                          I_0      |-> Param(data[1], 0 - Inf, Inf, FALSE),
                          N        |-> Param(pop, 0 - Inf, Inf, TRUE),
                          num_days |-> Param(Len(data), 0 - Inf, Inf, FALSE)]
            /\ pc' = "fit"
            /\ UNCHANGED raised
    /\ UNCHANGED <<data, pop, trial, call, model_out, chisqr, nfev, result, truth>>
    /\ UNCHANGED simvars

\* MakeParams with series shorter than two values rejected
MakeParams_checked ==
    /\ pc = "main"
    /\ IF Len(data) < 2
       THEN /\ pc' = "error"
            /\ raised' = "InsufficientData"
            /\ UNCHANGED params
       ELSE /\ params' = [beta     |-> Param(BetaStart * FitDen, BetaMin * FitDen, BetaMax * FitDen, TRUE),
                          I_0      |-> Param(data[1], 0 - Inf, Inf, FALSE),
                          N        |-> Param(pop, 0 - Inf, Inf, FALSE),
                          num_days |-> Param(Len(data), 0 - Inf, Inf, FALSE)]
            /\ pc' = "fit"
            /\ UNCHANGED raised
    /\ UNCHANGED <<data, pop, trial, call, model_out, chisqr, nfev, result, truth>>
    /\ UNCHANGED simvars

\* main, lines 188-193: the model and its parameters; I[0] of an empty row
\* raises IndexError
MakeParams ==
    /\ pc = "main"
    /\ IF Len(data) = 0
       THEN /\ pc' = "error"
            /\ raised' = "IndexError"
            /\ UNCHANGED params
       ELSE /\ params' = [beta     |-> Param(BetaStart * FitDen, BetaMin * FitDen, BetaMax * FitDen, TRUE),
                          I_0      |-> Param(data[1], 0 - Inf, Inf, FALSE),
                          N        |-> Param(pop, 0 - Inf, Inf, FALSE),
                          num_days |-> Param(Len(data), 0 - Inf, Inf, FALSE)]
            /\ pc' = "fit"
            /\ UNCHANGED raised
    /\ UNCHANGED <<data, pop, trial, call, model_out, chisqr, nfev, result, truth>>
    /\ UNCHANGED simvars

\* one evaluation of the objective by model.fit: the first at the initial
\* values, the later ones at values the search tries; a lower residual sum
\* of squares replaces the values kept in params
FitEval ==
    /\ pc = "fit"
    /\ nfev < MaxEval
    /\ \E v \in (IF nfev = 0 THEN {Values(params)} ELSE Candidates(params)) :
          LET x   == arange(Len(data))
              rss == Chisqr(data, v)
          IN  /\ trial' = v
              /\ call' = FittingCall(x, v.beta, v.I_0, v.N, v.num_days)
              /\ model_out' = fitting(x, v.beta, v.I_0, v.N, v.num_days)
              /\ IF nfev = 0 \/ rss < chisqr
                 THEN /\ params' = [k \in DOMAIN params |-> [params[k] EXCEPT !.value = v[k]]]
                      /\ chisqr' = rss
                 ELSE UNCHANGED <<params, chisqr>>
    /\ nfev' = nfev + 1
    /\ UNCHANGED <<pc, data, pop, result, truth, raised>>
    /\ UNCHANGED simvars

\* the search stops when no value it may try lowers the residual sum of
\* squares; model.fit returns the values kept, their curve and their residual
FitReturn ==
    /\ pc = "fit"
    /\ nfev >= 1
    /\ \A v \in Candidates(params) : Chisqr(data, v) >= chisqr
    /\ result' = [values   |-> Values(params),
                  best_fit |-> fitting(arange(Len(data)), params.beta.value, params.I_0.value,
                                       params.N.value, params.num_days.value),
                  chisqr   |-> chisqr,
                  success  |-> TRUE]
    /\ pc' = "done"
    /\ UNCHANGED <<data, pop, params, trial, call, model_out, chisqr, nfev, truth, raised>>
    /\ UNCHANGED simvars

FitNext == MakeParams \/ FitEval \/ FitReturn

SpecFit == FitInit /\ [][FitNext]_vars

----------------------------------------------------------------------------
(* Properties of the trajectory *)

NonNegative(a) == a.S_0 >= 0 /\ a.I_0 >= 0 /\ a.R_0 >= 0

\* the inputs the simulator is specified for (gamma = 0 included)
Valid(a) == NonNegative(a) /\ a.S_0 + a.I_0 + a.R_0 > 0

Days == 1..Len(sol)

Steps == {k \in Days : k + 1 \in Days}

\* C1: for valid inputs with gamma > 0 every row of the trajectory, and every
\* day of the returned arrays, has S + I + R = N; each day only moves
\* population between the compartments.
C1_Conservation ==
    (Valid(args) /\ args.gamma.n > 0) =>
        /\ \A k \in Days : sol[k].S + sol[k].I + sol[k].R = N
        /\ \A k \in Steps : (sol[k + 1].S - sol[k].S) + (sol[k + 1].I - sol[k].I)
                            + (sol[k + 1].R - sol[k].R) = 0
        /\ pc = "returned" =>
              \A k \in 1..args.num_days :
                  S[k] + I[k] + R[k] = args.S_0 + args.I_0 + args.R_0

C1_Witness ==
    /\ pc = "returned"
    /\ Valid(args) /\ args.gamma.n > 0
    /\ args.num_days >= 3
    /\ S[args.num_days] < args.S_0
    /\ R[args.num_days] > args.R_0
    /\ I[args.num_days] # args.I_0

\* C2: for valid inputs (gamma = 0 included) S never increases and R never
\* decreases from one day to the next.
C2_Monotone ==
    Valid(args) =>
        /\ \A k \in Steps : sol[k + 1].S <= sol[k].S /\ sol[k + 1].R >= sol[k].R
        /\ pc = "returned" =>
              \A k \in 1..(args.num_days - 1) : S[k + 1] <= S[k] /\ R[k + 1] >= R[k]

C2_Witness ==
    /\ pc = "returned"
    /\ Valid(args)
    /\ args.num_days >= 3
    /\ \A k \in 1..(args.num_days - 1) : S[k + 1] < S[k] /\ R[k + 1] > R[k]

\* C6: with beta = 0 S stays at S_0 on every day, I never increases and what
\* I loses from one day to the next is what R gains.
C6_BetaZero ==
    (Valid(args) /\ args.beta.n = 0) =>
        /\ \A k \in Days : sol[k].S = args.S_0
        /\ \A k \in Steps : /\ sol[k + 1].I <= sol[k].I
                            /\ sol[k].I - sol[k + 1].I = sol[k + 1].R - sol[k].R

C6_Witness ==
    /\ pc = "returned"
    /\ Valid(args) /\ args.beta.n = 0
    /\ args.S_0 > 0
    /\ args.num_days >= 3
    /\ \A k \in 1..(args.num_days - 1) : I[k + 1] < I[k]
    /\ S[args.num_days] = args.S_0

\* C10: for valid inputs, once I fails to increase from one day to the next
\* it does not increase on any later day.
C10_OnePeak ==
    Valid(args) =>
        \A j \in Steps : \A k \in Steps :
            (j < k /\ sol[j + 1].I <= sol[j].I) => sol[k + 1].I <= sol[k].I

C10_Witness ==
    /\ pc = "returned"
    /\ Valid(args)
    /\ \E j \in Steps : \E k \in Steps :
          j < k /\ sol[j + 1].I > sol[j].I /\ sol[k + 1].I < sol[k].I

\* C7 as stated: out-of-domain input never yields a trajectory; the call fails
\* at once with InvalidParameter, or with a division error when N = 0.
C7_Rejects ==
    (pc # "call" /\ (OutOfDomain(args) \/ args.S_0 + args.I_0 + args.R_0 = 0)) =>
        /\ pc = "error"
        /\ raised \in {"InvalidParameter", "ZeroDivisionError"}

\* C7 amended: Instance validates nothing.  With gamma = 0, a negative initial
\* value or N = 0 no exception leaves the call, and it returns num_days rows
\* the first of which holds the initial values; with N = 0 the later rows are
\* not finite numbers.
C7_NoValidation ==
    (OutOfDomain(args) \/ args.S_0 + args.I_0 + args.R_0 = 0) =>
        /\ raised = "none"
        /\ pc \in {"call", "odeint", "returned"}
        /\ pc = "returned" =>
              /\ Len(S) = args.num_days /\ Len(I) = args.num_days
              /\ Len(R) = args.num_days
              /\ S[1] = args.S_0 /\ I[1] = args.I_0 /\ R[1] = args.R_0
              /\ (N = 0 /\ args.num_days > 1) => nonfinite

C7_Witness ==
    /\ pc = "returned"
    /\ raised = "none"
    /\ args.gamma.n = 0
    /\ args.R_0 < 0
    /\ args.num_days >= 2
    /\ Len(S) = args.num_days

----------------------------------------------------------------------------
(* Properties of the fit *)

Evaluated == pc \in {"fit", "done"} /\ nfev >= 1

\* C3: at every evaluation fitting runs Instance with the beta tried,
\* gamma = 1/7, S_0 = N - I_0, I_0 = the first observed value, R_0 = 0, and
\* returns its infected trajectory: one value per observation, the first
\* equal to I_0.
C3_ForwardModel ==
    Evaluated =>
        /\ call.beta = Rate(trial.beta, FitDen)
        /\ call.gamma = Rate(1, 7)
        /\ call.I_0 = data[1]
        /\ call.S_0 = trial.N - data[1]
        /\ call.R_0 = 0
        /\ call.num_days = Len(data)
        /\ model_out = Instance(Rate(trial.beta, FitDen), Rate(1, 7), trial.N - data[1],
                                data[1], 0, Len(data)).I
        /\ Len(model_out) = Len(data)
        /\ model_out[1] = data[1]

C3_Witness ==
    /\ Evaluated
    /\ Len(data) >= 3
    /\ trial.beta > 0
    /\ data[1] > 0
    /\ Len(model_out) = Len(data)
    /\ model_out[Len(data)] # data[1]

InBounds(b) == BetaMin * FitDen <= b /\ b <= BetaMax * FitDen

\* C4: at every evaluation and in the result beta lies in [0, 1], while I_0, N,
\* num_days and gamma keep the values the fit started with; a series of
\* length 2 (or more) is fitted without an error.
C4_OnlyBetaVaries ==
    /\ pc \in {"fit", "done"} =>
          /\ InBounds(params.beta.value)
          /\ params.I_0.value = data[1]
          /\ params.N.value = pop
          /\ params.num_days.value = Len(data)
    /\ Evaluated =>
          /\ InBounds(trial.beta)
          /\ trial.I_0 = data[1] /\ trial.N = pop /\ trial.num_days = Len(data)
          /\ call.gamma = Rate(1, 7)
    /\ pc = "done" =>
          /\ InBounds(result.values.beta)
          /\ result.values.I_0 = data[1] /\ result.values.N = pop
          /\ result.values.num_days = Len(data)
    /\ Len(data) >= 2 => (raised = "none" /\ pc # "error")

C4_Witness ==
    /\ pc = "done"
    /\ Len(data) = 2
    /\ nfev >= 3
    /\ result.values.beta > 0
    /\ InBounds(result.values.beta)
    /\ result.values.N = pop

C8_Insufficient ==
    (Len(data) <= 1 /\ pc # "main") =>
        /\ pc = "error"
        /\ raised # "none"
        /\ nfev = 0
        /\ result = <<>>

\* C8 amended: main checks no length.  An empty series fails with the
\* IndexError of I[0], before any simulation; a series of one element is
\* fitted: the simulation runs for one day, returns I_0 for every beta, and
\* the fit returns a beta in [0, 1] with a residual of zero.
C8_NoLengthCheck ==
    /\ (Len(data) = 0 /\ pc # "main") =>
          /\ pc = "error" /\ raised = "IndexError"
          /\ nfev = 0 /\ result = <<>>
    /\ (Len(data) = 1 /\ pc # "main") =>
          /\ pc \in {"fit", "done"} /\ raised = "none"
          /\ nfev >= 1 => (call.num_days = 1 /\ model_out = <<data[1]>>)
          /\ pc = "done" => (InBounds(result.values.beta) /\ result.chisqr = 0)

C8_Witness ==
    /\ pc = "done"
    /\ Len(data) = 1
    /\ nfev >= 1
    /\ raised = "none"
    /\ InBounds(result.values.beta)

C8_WitnessEmpty ==
    /\ pc = "error"
    /\ Len(data) = 0
    /\ raised = "IndexError"

====
